---- MODULE Spec2Model ----
(***************************************************************************)
(* Model of runtime/js/10_permissions.js: the permission descriptor        *)
(* validation and normalisation, the status cache with its string keys,    *)
(* PermissionStatus (construction guard, state accessor, dispatchEvent)    *)
(* the Permissions facade (query/request/revoke, both forms) and          *)
(* serializePermissions.                                                   *)
(*                                                                         *)
(* The decision engine (ops.op_*_permission), pathFromURL and EventTarget  *)
(* live outside this file; they are modelled from their interface.         *)
(*                                                                         *)
(* Spec runs the six facade operations and the constructor over valid,     *)
(* unresolvable and invalid descriptors; SpecSync runs the immediate forms *)
(* over the valid descriptors in longer runs; SpecEvents runs the facade   *)
(* for one capability together with listeners, the onchange slot and       *)
(* dispatchEvent; SpecReentrant runs the immediate forms with callbacks    *)
(* that call back into the facade from inside a change event; SpecKinds    *)
(* runs one call over descriptors of all eight kinds; SpecSerialize        *)
(* applies serializePermissions to one argument.                           *)
(***************************************************************************)
EXTENDS Integers, Sequences, FiniteSets, TLC

\* ---------------------------------------------------------------- bounds
MaxCalls == 2       \* facade calls and constructions in a run of Spec
MaxSync == 3        \* immediate calls in a run of SpecSync
MaxSteps == 3       \* facade calls and dispatches in a run of SpecEvents
MaxHandlers == 3    \* listeners and onchange handlers attached at a time
MaxNested == 3      \* facade calls by the script in a run of SpecReentrant
MaxListeners == 3   \* callbacks attached in a run of SpecReentrant
StackLimit == 3     \* nested facade calls the call stack has room for
MaxKinds == 1       \* facade calls in a run of SpecKinds
MaxLen == 2         \* elements of a list handed to serializePermissions

\* ------------------------------------------------------ JavaScript values
\* A property value: t is the JavaScript type, s the string payload.
Absent == [t |-> "absent", s |-> ""]          \* the property does not exist
Undefined == [t |-> "undefined", s |-> ""]    \* the value undefined
Str(s) == [t |-> "string", s |-> s]
FileURL(p) == [t |-> "fileurl", s |-> p]      \* new URL("file://" + p)
HttpURL(h) == [t |-> "httpurl", s |-> h]      \* a URL whose protocol is not file:

\* desc.f : reading a property that does not exist gives undefined.
Get(desc, f) == IF desc[f].t = "absent" THEN Undefined ELSE desc[f]

\* ReflectHas(desc, f)
ReflectHas(desc, f) == desc[f].t # "absent"

\* `${v}` : the string a template literal produces for v.
TemplateString(v) ==
  CASE v.t = "string" -> v.s
    [] v.t = "fileurl" -> "file://" \o v.s
    [] v.t = "httpurl" -> v.s
    [] OTHER -> "undefined"

\* The truthiness test of `a && b` and `if (a)`.
Truthy(v) ==
  CASE v.t = "string" -> v.s # ""
    [] v.t \in {"fileurl", "httpurl"} -> TRUE
    [] OTHER -> FALSE

\* ------------------------------------------------------------ descriptors
\* An object literal {} ; t is what `typeof`/null tell about the argument.
EmptyObject ==
  [t |-> "object", name |-> Absent, path |-> Absent, host |-> Absent,
   command |-> Absent, variable |-> Absent, kind |-> Absent]

NullDesc == [EmptyObject EXCEPT !.t = "null"]
PrimitiveDesc == [EmptyObject EXCEPT !.t = "string"]

\* {name: n} and {name: n, [f]: v}
Bare(n) == [EmptyObject EXCEPT !.name = Str(n)]
Desc(n, f, v) == [EmptyObject EXCEPT !.name = Str(n), ![f] = v]

permissionNames ==
  <<"read", "write", "net", "env", "sys", "run", "ffi", "hrtime">>

PermissionState == {"granted", "denied", "prompt"}

ArrayPrototypeIncludes(arr, v) ==
  v.t = "string" /\ \E i \in 1..Len(arr) : arr[i] = v.s

\* Variant: the name is not looked up in permissionNames.
isValidDescriptor_anyObject(desc) == desc.t = "object"

isValidDescriptor(desc) ==
  /\ desc.t = "object"
  /\ ArrayPrototypeIncludes(permissionNames, Get(desc, "name"))

\* pathFromURL: a file URL becomes its path, any other URL is refused,
\* anything that is not a URL is returned as it is.
pathFromURL(v) ==
  CASE v.t = "fileurl" -> [ok |-> TRUE, v |-> Str(v.s)]
    [] v.t = "httpurl" -> [ok |-> FALSE, v |-> Undefined]
    [] OTHER -> [ok |-> TRUE, v |-> v]

\* Variant: the path is normalized whatever the kind.
formDescriptor_anyKind(desc) ==
  LET p == pathFromURL(Get(desc, "path")) IN
  [ok |-> p.ok, desc |-> IF p.ok THEN [desc EXCEPT !.path = p.v] ELSE desc]

\* formDescriptor assigns desc.path (desc.command), so the property exists
\* afterwards even when it did not before.
formDescriptor(desc) ==
  LET name == desc.name.s IN
  IF name \in {"read", "write", "ffi"}
  THEN LET p == pathFromURL(Get(desc, "path")) IN
       [ok |-> p.ok, desc |-> IF p.ok THEN [desc EXCEPT !.path = p.v] ELSE desc]
  ELSE IF name = "run"
  THEN LET p == pathFromURL(Get(desc, "command")) IN
       [ok |-> p.ok, desc |-> IF p.ok THEN [desc EXCEPT !.command = p.v] ELSE desc]
  ELSE [ok |-> TRUE, desc |-> desc]

\* The key computed at the head of cache(desc, state).
CacheKey(desc) ==
  LET name == desc.name.s IN
  IF name \in {"read", "write", "ffi"} /\ ReflectHas(desc, "path")
  THEN name \o "-" \o TemplateString(Get(desc, "path")) \o "&"
  ELSE IF name = "net" /\ Truthy(Get(desc, "host"))
  THEN name \o "-" \o TemplateString(Get(desc, "host")) \o "&"
  ELSE IF name = "run" /\ Truthy(Get(desc, "command"))
  THEN name \o "-" \o TemplateString(Get(desc, "command")) \o "&"
  ELSE IF name = "env" /\ Truthy(Get(desc, "variable"))
  THEN name \o "-" \o TemplateString(Get(desc, "variable")) \o "&"
  ELSE IF name = "sys" /\ Truthy(Get(desc, "kind"))
  THEN name \o "-" \o TemplateString(Get(desc, "kind")) \o "&"
  ELSE name \o "$"

\* ------------------------------------------------------ decision engine
\* The engine's own notion of the capability a normalized descriptor names:
\* the kind and the identifying sub-field, "*" standing for the whole kind.
IdField(name) ==
  CASE name \in {"read", "write", "ffi"} -> "path"
    [] name = "net" -> "host"
    [] name = "run" -> "command"
    [] name = "env" -> "variable"
    [] name = "sys" -> "kind"
    [] OTHER -> ""

EngineCap(desc) ==
  LET name == desc.name.s
      f == IdField(name)
      v == IF f = "" THEN Undefined ELSE Get(desc, f)
  IN <<name, IF v.t = "undefined" THEN "*" ELSE "=" \o TemplateString(v)>>

\* A call about a whole kind applies to every capability of that kind.
Covers(c, x) == c[1] = x[1] /\ (c[2] = "*" \/ c = x)

\* Each op returns the state of the named capability; env is what the
\* outside world contributes to the call: the user's answer to a prompt, or
\* "fail" when the op itself throws.
\* A descriptor the engine cannot parse makes the op throw as well.
Known(g, desc) == EngineCap(desc) \in DOMAIN g

opQuery(g, desc, env) ==
  IF env = "fail" \/ ~Known(g, desc)
  THEN [ok |-> FALSE, grants |-> g, state |-> "fail"]
  ELSE [ok |-> TRUE, grants |-> g, state |-> g[EngineCap(desc)]]

opRevoke(g, desc, env) ==
  LET c == EngineCap(desc)
      g1 == [x \in DOMAIN g |->
               IF Covers(c, x) /\ g[x] = "granted" THEN "prompt" ELSE g[x]]
  IN IF env = "fail" \/ ~Known(g, desc)
     THEN [ok |-> FALSE, grants |-> g, state |-> "fail"]
     ELSE [ok |-> TRUE, grants |-> g1, state |-> g1[c]]

opRequest(g, desc, env) ==
  LET c == EngineCap(desc)
      g1 == [x \in DOMAIN g |->
               IF Known(g, desc) /\ g[c] = "prompt" /\ Covers(c, x) /\ g[x] = "prompt"
               THEN env ELSE g[x]]
  IN IF env = "fail" \/ ~Known(g, desc)
     THEN [ok |-> FALSE, grants |-> g, state |-> "fail"]
     ELSE [ok |-> TRUE, grants |-> g1, state |-> g1[c]]

\* ------------------------------------------------- PermissionStatus
illegalConstructorKey == "illegalConstructorKey"

\* What a callback does when invoked: nothing that matters here, calling
\* event.preventDefault(), or throwing.  Listeners are of the first two kinds.
Callbacks == {"noop", "preventDefault", "throw"}
Listeners == {"noop", "preventDefault"}

\* A callback can also call back into the facade while the event is being
\* dispatched: permissions.querySync(d) or permissions.revokeSync(d), d
\* being a descriptor of its own for the capability of the Status Object.
Reentrant == {"requery", "rerevoke"}
SameCapability == Desc("read", "path", Str("/a"))

\* One entry of the record of what a call did.
Entry(e, a, obj, state) == [e |-> e, a |-> a, obj |-> obj, state |-> state]

\* get state(): this.#state.state
StateOf(w, obj) ==
  IF w.objs[obj].rec = 0 THEN "TypeError" ELSE w.recs[w.objs[obj].rec].state

\* new PermissionStatus(state, key): the guard comes before super().
IllegalConstructor == "TypeError: Illegal constructor."

\* Variant: the constructor without its guard.
PermissionStatus_unguarded(w, state, key) ==
  [w |-> [w EXCEPT !.objs = Append(@, [rec |-> state, onchange |-> "null",
                                       listeners |-> <<>>])],
   threw |-> FALSE, ret |-> Len(w.objs) + 1]

PermissionStatus(w, state, key) ==
  IF key # illegalConstructorKey
  THEN [w |-> w, threw |-> TRUE, ret |-> 0]
  ELSE [w |-> [w EXCEPT !.objs = Append(@, [rec |-> state, onchange |-> "null",
                                             listeners |-> <<>>])],
        threw |-> FALSE, ret |-> Len(w.objs) + 1]

\* The call of a callback: cb(event).  A call into the facade runs inside
\* it, one level deeper on the call stack, and the callback throws what
\* that call throws; the call stack has room for StackLimit nested calls
\* (RangeError beyond).
RECURSIVE querySync(_, _, _), revokeSync(_, _, _)
\* The callback cb is back from its facade call, whose completion is r.
Left(r, cb, obj) ==
  [w |-> [r.w EXCEPT !.depth = @ - 1,
                     !.trace = Append(@, Entry("leave", cb, obj, StateOf(r.w, obj)))],
   threw |-> r.threw]

FunctionPrototypeCall(w, cb, obj) ==
  IF cb \notin Reentrant THEN [w |-> w, threw |-> cb = "throw"]
  ELSE IF w.depth >= StackLimit
  THEN [w |-> [w EXCEPT !.trace = Append(@, Entry("overflow", cb, obj, StateOf(w, obj)))],
        threw |-> TRUE]
  ELSE LET w1 == [w EXCEPT !.depth = @ + 1,
                           !.trace = Append(@, Entry("enter", cb, obj, StateOf(w, obj)))]
       IN Left(IF cb = "requery" THEN querySync(w1, SameCapability, "none")
               ELSE revokeSync(w1, SameCapability, "none"), cb, obj)

\* EventTarget.prototype.dispatchEvent: the listeners run in registration
\* order; preventDefault() cancels a cancelable event; the result is
\* "not canceled".  An exception of a listener is reported, not propagated.
RECURSIVE InvokeListeners(_, _, _, _, _)
InvokeListeners(w, obj, i, cancelable, canceled) ==
  IF i > Len(w.objs[obj].listeners)
  THEN [w |-> w, canceled |-> canceled]
  ELSE LET cb == w.objs[obj].listeners[i]
           w1 == [w EXCEPT !.trace =
                    Append(@, Entry("listener", cb, obj, StateOf(w, obj)))]
       IN InvokeListeners(FunctionPrototypeCall(w1, cb, obj).w, obj, i + 1,
                          cancelable,
                          canceled \/ (cb = "preventDefault" /\ cancelable))

NotCanceled(r) == [w |-> r.w, ret |-> ~r.canceled]

EventTarget_dispatchEvent(w, obj, cancelable) ==
  NotCanceled(InvokeListeners(w, obj, 1, cancelable, FALSE))

\* PermissionStatus.prototype.dispatchEvent
\* c is the completion of the call of the onchange handler:
\* dispatched = !event.defaultPrevented, unless the handler threw.
Handled(c, onchange, cancelable) ==
  IF c.threw
  THEN [w |-> c.w, threw |-> TRUE, ret |-> FALSE]
  ELSE [w |-> c.w, threw |-> FALSE,
        ret |-> ~(onchange = "preventDefault" /\ cancelable)]

\* sup is what super.dispatchEvent(event) did and returned.
Dispatched_onchange(sup, obj, cancelable) ==
  LET onchange == sup.w.objs[obj].onchange IN
  IF sup.ret /\ onchange # "null"
  THEN Handled(FunctionPrototypeCall(
                 [sup.w EXCEPT !.trace =
                    Append(@, Entry("onchange", onchange, obj, StateOf(sup.w, obj)))],
                 onchange, obj),
               onchange, cancelable)
  ELSE [w |-> sup.w, threw |-> FALSE, ret |-> sup.ret]

dispatchEvent(w, obj, cancelable) ==
  Dispatched_onchange(
    EventTarget_dispatchEvent(
      [w EXCEPT !.trace = Append(@, Entry("dispatch", "change", obj, StateOf(w, obj)))],
      obj, cancelable),
    obj, cancelable)

\* ------------------------------------------------------- status cache
MapPrototypeHas(m, k) == k \in DOMAIN m
MapPrototypeGet(m, k) == m[k]
MapPrototypeSet(m, k, v) ==
  [x \in DOMAIN m \cup {k} |-> IF x = k THEN v ELSE m[x]]

\* d is the completion of status.status.dispatchEvent(...): cache returns
\* status.status unless the dispatch threw.
Notified(d, status) ==
  [w |-> d.w, threw |-> d.threw,
   ret |-> IF d.threw THEN 0 ELSE d.w.recs[status].status]

\* Variant: notifies without comparing the stored state with the new one.
cacheHit_always(w, key, state) ==
  LET status == MapPrototypeGet(w.statusCache, key)
      w1 == [w EXCEPT !.recs[status].state = state]
      d == dispatchEvent(w1, w1.recs[status].status, FALSE)
  IN [w |-> d.w, threw |-> d.threw,
      ret |-> IF d.threw THEN 0 ELSE d.w.recs[status].status]

\* Variant: notifies without storing the new state.
cacheHit_noUpdate(w, key, state) ==
  LET status == MapPrototypeGet(w.statusCache, key) IN
  IF w.recs[status].state # state
  THEN LET d == dispatchEvent(w, w.recs[status].status, FALSE)
       IN [w |-> d.w, threw |-> d.threw,
           ret |-> IF d.threw THEN 0 ELSE d.w.recs[status].status]
  ELSE [w |-> w, threw |-> FALSE, ret |-> w.recs[status].status]

\* Variant: the event is cancelable and a prevented change is taken back.
cacheHit_undoPrevented(w, key, state) ==
  LET status == MapPrototypeGet(w.statusCache, key) IN
  IF w.recs[status].state # state
  THEN LET w1 == [w EXCEPT !.recs[status].state = state]
           d == dispatchEvent(w1, w1.recs[status].status, TRUE)
           w2 == IF d.threw \/ d.ret THEN d.w
                 ELSE [d.w EXCEPT !.recs[status].state = w.recs[status].state]
       IN [w |-> w2, threw |-> d.threw,
           ret |-> IF d.threw THEN 0 ELSE d.w.recs[status].status]
  ELSE [w |-> w, threw |-> FALSE, ret |-> w.recs[status].status]

\* Variant: notifies first and stores the new state afterwards.
cacheHit_dispatchFirst(w, key, state) ==
  LET status == MapPrototypeGet(w.statusCache, key) IN
  IF w.recs[status].state # state
  THEN LET d == dispatchEvent(w, w.recs[status].status, FALSE)
           w1 == [d.w EXCEPT !.recs[status].state = state]
       IN [w |-> IF d.threw THEN d.w ELSE w1, threw |-> d.threw,
           ret |-> IF d.threw THEN 0 ELSE w1.recs[status].status]
  ELSE [w |-> w, threw |-> FALSE, ret |-> w.recs[status].status]

\* cache, the key being present: compare, mutate in place, notify, return.
cacheHit(w, key, state) ==
  LET status == MapPrototypeGet(w.statusCache, key) IN
  IF w.recs[status].state # state
  THEN Notified(dispatchEvent([w EXCEPT !.recs[status].state = state],
                              w.recs[status].status, FALSE),
                status)
  ELSE [w |-> w, threw |-> FALSE, ret |-> w.recs[status].status]

\* cache, the key being new: a record, its PermissionStatus, the map entry.
cacheMiss(w, key, state) ==
  LET status == Len(w.recs) + 1
      w1 == [w EXCEPT !.recs = Append(@, [state |-> state, status |-> 0])]
      c == PermissionStatus(w1, status, illegalConstructorKey)
      w2 == [c.w EXCEPT !.recs[status].status = c.ret,
                        !.statusCache = MapPrototypeSet(@, key, status)]
  IN [w |-> w2, threw |-> FALSE, ret |-> w2.recs[status].status]

\* Variant: no lookup, every resolution stores a new record.
cache_fresh(w, desc, state) == cacheMiss(w, CacheKey(desc), state)

\* cache(desc, state)
cache(w, desc, state) ==
  LET key == CacheKey(desc) IN
  IF MapPrototypeHas(w.statusCache, key)
  THEN cacheHit(w, key, state)
  ELSE cacheMiss(w, key, state)

\* ------------------------------------------------------- Permissions
\* A completion of an immediate form: it returns ret or throws error; desc
\* is the caller's descriptor object as the call leaves it.
Return(w, desc, ret) ==
  [w |-> w, desc |-> desc, threw |-> FALSE, ret |-> ret, error |-> ""]
Throw(w, desc, error) ==
  [w |-> w, desc |-> desc, threw |-> TRUE, ret |-> 0, error |-> error]

InvalidName == "TypeError: not a valid permission name"
NotFileURL == "TypeError: Must be a file URL."
OpFailed == "op error"
HandlerFailed == "onchange error"

\* The decision-engine call as the record of a call shows it.
Called(w, name, e) ==
  [w EXCEPT !.grants = e.grants,
            !.trace = Append(@, Entry("engine", name, 0,
                                      e.state))]

\* c is the completion of cache(desc, state): `return cache(desc, state)`.
Cached(c, desc) ==
  IF c.threw THEN Throw(c.w, desc, HandlerFailed) ELSE Return(c.w, desc, c.ret)

\* Variant: querySync asks the engine with the request call.
querySync_requests(w, desc, env) ==
  IF ~isValidDescriptor(desc) THEN Throw(w, desc, InvalidName)
  ELSE LET f == formDescriptor(desc) IN
       IF ~f.ok THEN Throw(w, f.desc, NotFileURL)
       ELSE LET e == opRequest(w.grants, f.desc, "granted")
                w1 == Called(w, "request", e)
            IN IF ~e.ok THEN Throw(w1, f.desc, OpFailed)
               ELSE LET c == cache(w1, f.desc, e.state) IN
                    IF c.threw THEN Throw(c.w, f.desc, HandlerFailed)
                    ELSE Return(c.w, f.desc, c.ret)

querySync(w, desc, env) ==
  IF ~isValidDescriptor(desc) THEN Throw(w, desc, InvalidName)
  ELSE LET f == formDescriptor(desc) IN
       IF ~f.ok THEN Throw(w, f.desc, NotFileURL)
       ELSE LET e == opQuery(w.grants, f.desc, env)
                w1 == Called(w, "query", e)
            IN IF ~e.ok THEN Throw(w1, f.desc, OpFailed)
               ELSE Cached(cache(w1, f.desc, e.state), f.desc)

\* Variant: a failed revoke op is taken for "prompt" and resolved.
revokeSync_swallow(w, desc, env) ==
  IF ~isValidDescriptor(desc) THEN Throw(w, desc, InvalidName)
  ELSE LET f == formDescriptor(desc) IN
       IF ~f.ok THEN Throw(w, f.desc, NotFileURL)
       ELSE LET e == opRevoke(w.grants, f.desc, env)
                w1 == Called(w, "revoke", e)
                c == cache(w1, f.desc, IF e.ok THEN e.state ELSE "prompt")
            IN IF c.threw THEN Throw(c.w, f.desc, HandlerFailed)
               ELSE Return(c.w, f.desc, c.ret)

revokeSync(w, desc, env) ==
  IF ~isValidDescriptor(desc) THEN Throw(w, desc, InvalidName)
  ELSE LET f == formDescriptor(desc) IN
       IF ~f.ok THEN Throw(w, f.desc, NotFileURL)
       ELSE LET e == opRevoke(w.grants, f.desc, env)
                w1 == Called(w, "revoke", e)
            IN IF ~e.ok THEN Throw(w1, f.desc, OpFailed)
               ELSE Cached(cache(w1, f.desc, e.state), f.desc)

requestSync(w, desc, env) ==
  IF ~isValidDescriptor(desc) THEN Throw(w, desc, InvalidName)
  ELSE LET f == formDescriptor(desc) IN
       IF ~f.ok THEN Throw(w, f.desc, NotFileURL)
       ELSE LET e == opRequest(w.grants, f.desc, env)
                w1 == Called(w, "request", e)
            IN IF ~e.ok THEN Throw(w1, f.desc, OpFailed)
               ELSE Cached(cache(w1, f.desc, e.state), f.desc)

\* The deferred forms: try { return PromiseResolve(sync) } catch { return
\* PromiseReject(error) }.  promise is the state of the future returned.
PromiseResolve(r) == [r EXCEPT !.promise = "resolved"]
PromiseReject(r) == [r EXCEPT !.threw = FALSE, !.promise = "rejected"]
Immediate(r) ==
  [w |-> r.w, desc |-> r.desc, threw |-> r.threw, ret |-> r.ret,
   error |-> r.error, promise |-> "none"]

\* Variant: the deferred form without its catch clause.
query_uncaught(w, desc, env) ==
  LET r == Immediate(querySync(w, desc, env)) IN
  IF r.threw THEN r ELSE PromiseResolve(r)

query(w, desc, env) ==
  LET r == Immediate(querySync(w, desc, env)) IN
  IF r.threw THEN PromiseReject(r) ELSE PromiseResolve(r)

revoke(w, desc, env) ==
  LET r == Immediate(revokeSync(w, desc, env)) IN
  IF r.threw THEN PromiseReject(r) ELSE PromiseResolve(r)

request(w, desc, env) ==
  LET r == Immediate(requestSync(w, desc, env)) IN
  IF r.threw THEN PromiseReject(r) ELSE PromiseResolve(r)

\* ------------------------------------------------ serializePermissions
\* The objects serializePermissions reads and builds live in a heap: a cell
\* is an array (its elements) or a plain object (its eight properties), and
\* a value of type "ref" points at a cell.
Ref(n) == [t |-> "ref", s |-> "", at |-> n]
Null == [t |-> "null", s |-> ""]
ArrayCell(elems) == [t |-> "array", elems |-> elems]
ObjectCell(fields) == [t |-> "object", fields |-> fields]

PathKeys == <<"read", "write", "run", "ffi">>
VerbatimKeys == <<"env", "hrtime", "net", "sys">>
SerializedKeys == PathKeys \o VerbatimKeys

\* {} as a heap cell: no property exists.
EmptyFields == [k \in {SerializedKeys[i] : i \in 1..8} |-> Absent]

ArrayIsArray(h, v) == v.t = "ref" /\ h[v.at].t = "array"

\* permissions[key]: an array has none of the eight properties.
Member(h, permissions, key) ==
  LET cell == h[permissions.at] IN
  IF cell.t = "object" /\ cell.fields[key].t # "absent"
  THEN cell.fields[key] ELSE Undefined

\* ArrayPrototypeMap(arr, (path) => pathFromURL(path)): a new array, or the
\* exception of the first element pathFromURL refuses.
ArrayPrototypeMap(elems) ==
  [ok |-> \A i \in 1..Len(elems) : pathFromURL(elems[i]).ok,
   elems |-> [i \in 1..Len(elems) |-> pathFromURL(elems[i]).v]]

\* ArrayPrototypeSlice(arr): a new array of the same elements.
ArrayPrototypeSlice(elems) == [ok |-> TRUE, elems |-> elems]

\* Variant: the lists of env/hrtime/net/sys are handed over, not copied.
SerializedList_shared(h, key, arr) ==
  IF \E i \in 1..Len(PathKeys) : PathKeys[i] = key
  THEN LET m == ArrayPrototypeMap(h[arr.at].elems) IN
       IF m.ok
       THEN [ok |-> TRUE, h |-> Append(h, ArrayCell(m.elems)), v |-> Ref(Len(h) + 1)]
       ELSE [ok |-> FALSE, h |-> h, v |-> Undefined]
  ELSE [ok |-> TRUE, h |-> h, v |-> arr]

\* The value stored under key when permissions[key] is the array arr.
SerializedList(h, key, arr) ==
  LET m == IF \E i \in 1..Len(PathKeys) : PathKeys[i] = key
           THEN ArrayPrototypeMap(h[arr.at].elems)
           ELSE ArrayPrototypeSlice(h[arr.at].elems)
  IN IF m.ok
     THEN [ok |-> TRUE, h |-> Append(h, ArrayCell(m.elems)), v |-> Ref(Len(h) + 1)]
     ELSE [ok |-> FALSE, h |-> h, v |-> Undefined]

\* The two loops over the keys, i being the position in SerializedKeys and
\* out the cell of serializedPermissions.
RECURSIVE SerializeKeys(_, _, _, _)
SerializeKeys(h, permissions, out, i) ==
  IF i > Len(SerializedKeys) THEN [h |-> h, threw |-> FALSE, ret |-> Ref(out)]
  ELSE LET key == SerializedKeys[i]
           v == Member(h, permissions, key)
       IN IF ArrayIsArray(h, v)
          THEN LET l == SerializedList(h, key, v) IN
               IF l.ok
               THEN SerializeKeys([l.h EXCEPT ![out].fields[key] = l.v],
                                  permissions, out, i + 1)
               ELSE [h |-> l.h, threw |-> TRUE, ret |-> Undefined]
          ELSE SerializeKeys([h EXCEPT ![out].fields[key] = v],
                             permissions, out, i + 1)

\* serializePermissions(permissions)
serializePermissions(h, permissions) ==
  IF permissions.t = "ref"
  THEN SerializeKeys(Append(h, ObjectCell(EmptyFields)), permissions,
                     Len(h) + 1, 1)
  ELSE [h |-> h, threw |-> FALSE, ret |-> permissions]

\* ------------------------------------------------------ the state machine
\* The descriptors the calling script passes.
ValidPool ==
  { Bare("read"),
    Desc("read", "path", Str("/a")),
    Desc("read", "path", FileURL("/a")),
    Desc("read", "path", Str("undefined")),
    Bare("net"),
    Desc("net", "host", Str("")) }
UnresolvablePool == { Desc("read", "path", HttpURL("http://h/a")) }
InvalidPool == { NullDesc, PrimitiveDesc, EmptyObject, Bare("bogus") }
DescPool == ValidPool \cup UnresolvablePool \cup InvalidPool

\* The descriptor of the runs that exercise listeners: one capability.
EventPool == { Desc("read", "path", FileURL("/a")) }

EngineCaps == { EngineCap(formDescriptor(d).desc) : d \in ValidPool }
Answers == {"granted", "denied", "fail"}

VARIABLES
  statusCache,  \* Map<string, StatusCacheValue>, as key -> record reference
  recs,         \* the StatusCacheValue records { state, status }, by reference
  objs,         \* the PermissionStatus objects { #state, onchange, listeners }
  grants,       \* the decision engine's state per capability
  issued,       \* history: every (descriptor, object) pair a call returned
  answered,     \* history: per key, the state the engine returned last
  last,         \* the most recent call or dispatch and what it did
  heap,         \* the arrays and objects serializePermissions works on
  serialized    \* the call of serializePermissions: argument and completion

vars == <<statusCache, recs, objs, grants, issued, answered, last, heap, serialized>>

World ==
  [statusCache |-> statusCache, recs |-> recs, objs |-> objs,
   grants |-> grants, trace |-> <<>>, depth |-> 0]

NoCall ==
  [seq |-> 0, what |-> "none", form |-> "none", desc |-> EmptyObject,
   descAfter |-> EmptyObject, env |-> "none", obj |-> 0, threw |-> FALSE,
   promise |-> "none", ret |-> 0, result |-> FALSE, error |-> "",
   trace |-> <<>>]

\* No call of serializePermissions yet; permissions is the argument to come.
NotSerialized(permissions) ==
  [permissions |-> permissions, done |-> FALSE, before |-> << >>,
   threw |-> FALSE, ret |-> Undefined]

Init ==
  /\ heap = << >>
  /\ serialized = NotSerialized(Undefined)
  /\ statusCache = << >>
  /\ recs = << >>
  /\ objs = << >>
  /\ \E s \in PermissionState : grants = [c \in EngineCaps |-> s]
  /\ issued = {}
  /\ answered = << >>
  /\ last = NoCall

\* What the record of a call says about its decision-engine call.
EngineAnswered(trace) ==
  \E i \in 1..Len(trace) : trace[i].e = "engine" /\ trace[i].state # "fail"
EngineState(trace) ==
  trace[CHOOSE i \in 1..Len(trace) :
          trace[i].e = "engine" /\ \A j \in 1..(i - 1) : trace[j].e # "engine"].state

\* The state the engine returned last, the calls made by callbacks included.
LastAnswer(trace) ==
  trace[CHOOSE i \in 1..Len(trace) :
          /\ trace[i].e = "engine" /\ trace[i].state # "fail"
          /\ \A j \in (i + 1)..Len(trace) :
               ~(trace[j].e = "engine" /\ trace[j].state # "fail")].state

\* The effect of a facade call whose completion is r.
Do(r, what, form, desc, env, bound) ==
  /\ last.seq < bound
  /\ statusCache' = r.w.statusCache
  /\ recs' = r.w.recs
  /\ objs' = r.w.objs
  /\ grants' = r.w.grants
  /\ issued' = IF r.threw \/ r.promise = "rejected" THEN issued
               ELSE issued \cup {[raw |-> desc, desc |-> r.desc, obj |-> r.ret]}
  /\ answered' = IF EngineAnswered(r.w.trace)
                 THEN MapPrototypeSet(answered, CacheKey(r.desc),
                                      LastAnswer(r.w.trace))
                 ELSE answered
  /\ last' = [NoCall EXCEPT !.seq = last.seq + 1, !.what = what,
                !.form = form, !.desc = desc, !.descAfter = r.desc,
                !.env = env, !.threw = r.threw, !.promise = r.promise,
                !.ret = r.ret, !.error = r.error, !.trace = r.w.trace]
  /\ UNCHANGED <<heap, serialized>>

\* query and revoke take no answer from the user: their op works or fails.
QuerySync(pool, bound) ==
  \E desc \in pool, env \in {"none", "fail"} :
    Do(Immediate(querySync(World, desc, env)), "query", "immediate", desc, env, bound)

RevokeSync(pool, bound) ==
  \E desc \in pool, env \in {"none", "fail"} :
    Do(Immediate(revokeSync(World, desc, env)), "revoke", "immediate", desc, env, bound)

RequestSync(pool, bound) ==
  \E desc \in pool, env \in Answers :
    Do(Immediate(requestSync(World, desc, env)), "request", "immediate", desc, env, bound)

Query(pool, bound) ==
  \E desc \in pool, env \in {"none", "fail"} :
    Do(query(World, desc, env), "query", "deferred", desc, env, bound)

Revoke(pool, bound) ==
  \E desc \in pool, env \in {"none", "fail"} :
    Do(revoke(World, desc, env), "revoke", "deferred", desc, env, bound)

Request(pool, bound) ==
  \E desc \in pool, env \in Answers :
    Do(request(World, desc, env), "request", "deferred", desc, env, bound)

\* How many listeners and onchange handlers are attached.
RECURSIVE Handlers(_, _)
Handlers(os, i) ==
  IF i > Len(os) THEN 0
  ELSE Len(os[i].listeners) + (IF os[i].onchange = "null" THEN 0 ELSE 1)
       + Handlers(os, i + 1)

\* status.addEventListener("change", cb)
AddEventListener ==
  \E obj \in 1..Len(objs), cb \in Listeners :
    /\ last.seq < MaxSteps
    /\ Handlers(objs, 1) < MaxHandlers
    /\ objs' = [objs EXCEPT ![obj].listeners = Append(@, cb)]
    /\ UNCHANGED <<statusCache, recs, grants, issued, answered, last, heap, serialized>>

\* status.onchange = cb
SetOnchange ==
  \E obj \in 1..Len(objs), cb \in Callbacks \cup {"null"} :
    /\ last.seq < MaxSteps
    /\ objs[obj].onchange # cb
    /\ objs' = [objs EXCEPT ![obj].onchange = cb]
    /\ Handlers(objs', 1) <= MaxHandlers
    /\ UNCHANGED <<statusCache, recs, grants, issued, answered, last, heap, serialized>>

\* status.dispatchEvent(new Event("change", { cancelable })) by the script
DispatchEvent ==
  \E obj \in 1..Len(objs), cancelable \in BOOLEAN :
    LET d == dispatchEvent(World, obj, cancelable) IN
    /\ last.seq < MaxSteps
    /\ last' = [NoCall EXCEPT !.seq = last.seq + 1, !.what = "dispatchEvent",
                  !.form = IF cancelable THEN "cancelable" ELSE "plain",
                  !.obj = obj, !.threw = d.threw, !.result = d.ret,
                  !.error = IF d.threw THEN HandlerFailed ELSE "",
                  !.trace = d.w.trace]
    /\ UNCHANGED <<statusCache, recs, objs, grants, issued, answered, heap, serialized>>

\* new PermissionStatus(state, key) by the script, which cannot hold
\* illegalConstructorKey: it passes nothing (null) or a value of its own.
Construct ==
  \E key \in {"null", "forged"} :
    LET c == PermissionStatus(World, 0, key) IN
    /\ last.seq < MaxCalls
    /\ objs' = c.w.objs
    /\ last' = [NoCall EXCEPT !.seq = last.seq + 1, !.what = "construct",
                  !.form = key, !.threw = c.threw, !.ret = c.ret,
                  !.error = IF c.threw THEN IllegalConstructor ELSE ""]
    /\ UNCHANGED <<statusCache, recs, grants, issued, answered, heap, serialized>>

\* The facade and the constructor over the whole descriptor pool.
Next ==
  \/ QuerySync(DescPool, MaxCalls)
  \/ RevokeSync(DescPool, MaxCalls)
  \/ RequestSync(DescPool, MaxCalls)
  \/ Query(DescPool, MaxCalls)
  \/ Revoke(DescPool, MaxCalls)
  \/ Request(DescPool, MaxCalls)
  \/ Construct

Spec == Init /\ [][Next]_vars

\* The immediate forms over the valid descriptors, in longer runs.
NextSync ==
  \/ QuerySync(ValidPool, MaxSync)
  \/ RevokeSync(ValidPool, MaxSync)
  \/ RequestSync(ValidPool, MaxSync)

SpecSync == Init /\ [][NextSync]_vars

\* The facade over one capability, with listeners, the onchange slot and
\* dispatchEvent.
NextEvents ==
  \/ QuerySync(EventPool, MaxSteps)
  \/ RevokeSync(EventPool, MaxSteps)
  \/ RequestSync(EventPool, MaxSteps)
  \/ Query(EventPool, MaxSteps)
  \/ Revoke(EventPool, MaxSteps)
  \/ Request(EventPool, MaxSteps)
  \/ AddEventListener
  \/ SetOnchange
  \/ DispatchEvent

SpecEvents == Init /\ [][NextEvents]_vars

\* status.addEventListener("change", cb) and status.onchange = cb with
\* callbacks that read the state or call back into the facade.
ReentrantCallbacks == {"noop"} \cup Reentrant

AddReentrantListener ==
  \E obj \in 1..Len(objs), cb \in ReentrantCallbacks :
    /\ last.seq < MaxNested
    /\ Handlers(objs, 1) < MaxListeners
    /\ objs' = [objs EXCEPT ![obj].listeners = Append(@, cb)]
    /\ UNCHANGED <<statusCache, recs, grants, issued, answered, last, heap, serialized>>

SetReentrantOnchange ==
  \E obj \in 1..Len(objs), cb \in ReentrantCallbacks \cup {"null"} :
    /\ last.seq < MaxNested
    /\ objs[obj].onchange # cb
    /\ objs' = [objs EXCEPT ![obj].onchange = cb]
    /\ Handlers(objs', 1) <= MaxListeners
    /\ UNCHANGED <<statusCache, recs, grants, issued, answered, last, heap, serialized>>

\* The immediate forms for one capability, with callbacks that re-enter.
NextReentrant ==
  \/ QuerySync(EventPool, MaxNested)
  \/ RevokeSync(EventPool, MaxNested)
  \/ RequestSync(EventPool, MaxNested)
  \/ AddReentrantListener
  \/ SetReentrantOnchange

SpecReentrant == Init /\ [][NextReentrant]_vars

\* Descriptors of all eight kinds: bare, with the kind's own field (a string,
\* the empty string, a file URL, another URL) and with fields of other kinds.
KindPool ==
  { Bare(permissionNames[i]) : i \in 1..Len(permissionNames) }
  \cup { Desc(n, "path", v) : n \in {"read", "write", "ffi"},
                              v \in {Str("/a"), FileURL("/a")} }
  \cup { Desc("net", "host", Str("h")), Desc("net", "host", Str("")),
         Desc("run", "command", Str("c")), Desc("run", "command", FileURL("/c")),
         Desc("env", "variable", Str("V")), Desc("sys", "kind", Str("osRelease")),
         Desc("write", "path", HttpURL("http://h/a")),
         Desc("run", "command", HttpURL("http://h/c")),
         Desc("net", "path", FileURL("/a")),
         Desc("hrtime", "command", FileURL("/c")),
         [Desc("read", "path", FileURL("/a")) EXCEPT !.command = FileURL("/c")],
         [Desc("run", "command", FileURL("/c")) EXCEPT !.path = FileURL("/a")] }

KindCaps ==
  { EngineCap(formDescriptor(d).desc) : d \in {x \in KindPool : formDescriptor(x).ok} }

InitKinds ==
  /\ heap = << >>
  /\ serialized = NotSerialized(Undefined)
  /\ statusCache = << >>
  /\ recs = << >>
  /\ objs = << >>
  /\ \E s \in PermissionState : grants = [c \in KindCaps |-> s]
  /\ issued = {}
  /\ answered = << >>
  /\ last = NoCall

\* The facade over the descriptors of all kinds.
NextKinds ==
  \/ QuerySync(KindPool, MaxKinds)
  \/ RevokeSync(KindPool, MaxKinds)
  \/ RequestSync(KindPool, MaxKinds)
  \/ Query(KindPool, MaxKinds)
  \/ Revoke(KindPool, MaxKinds)
  \/ Request(KindPool, MaxKinds)

SpecKinds == InitKinds /\ [][NextKinds]_vars

\* serializePermissions applied to one argument.  The argument is null, a
\* primitive, an array, or a configuration object with one property of the
\* path kinds and one of the other kinds set; a property is absent, the
\* string "inherit", or the array of the heap (both may name the same one).
Elems == { Str("/a"), FileURL("/b"), HttpURL("http://h/a") }
Lists == UNION { [1..n -> Elems] : n \in 0..MaxLen }
Members == { Absent, Str("inherit"), Ref(1) }
Configs ==
  { [EmptyFields EXCEPT ![PathKeys[i]] = v1, ![VerbatimKeys[j]] = v2] :
      i \in 1..4, j \in 1..4, v1 \in Members, v2 \in Members }
Arguments == { Null, Undefined, Str("inherit"), Ref(1), Ref(2) }

InitSerialize ==
  /\ \E l \in Lists, f \in Configs : heap = <<ArrayCell(l), ObjectCell(f)>>
  /\ \E permissions \in Arguments : serialized = NotSerialized(permissions)
  /\ statusCache = << >>
  /\ recs = << >>
  /\ objs = << >>
  /\ grants = [c \in EngineCaps |-> "prompt"]
  /\ issued = {}
  /\ answered = << >>
  /\ last = NoCall

SerializePermissions ==
  LET r == serializePermissions(heap, serialized.permissions) IN
  /\ ~serialized.done
  /\ heap' = r.h
  /\ serialized' = [serialized EXCEPT !.done = TRUE, !.before = heap,
                                      !.threw = r.threw, !.ret = r.ret]
  /\ UNCHANGED <<statusCache, recs, objs, grants, issued, answered, last>>

NextSerialize == SerializePermissions

SpecSerialize == InitSerialize /\ [][NextSerialize]_vars

\* ------------------------------------------------------------ properties
Ops == {"query", "request", "revoke"}

\* The kind and the identifying sub-field of a normalized descriptor.
SubField(desc) ==
  <<desc.name.s,
    IF IdField(desc.name.s) = "" THEN Undefined
    ELSE Get(desc, IdField(desc.name.s))>>

\* The objects a call dispatched an event on, in order.
RECURSIVE Dispatched(_)
Dispatched(trace) ==
  IF trace = << >> THEN << >>
  ELSE (IF Head(trace).e = "dispatch" THEN <<Head(trace).obj>> ELSE << >>)
       \o Dispatched(Tail(trace))

\* The state read from object o when the records are rs and the objects os.
StateIn(rs, os, o) == rs[os[o].rec].state

\* The step is a facade call.
CallStep == last'.seq # last.seq /\ last'.what \in Ops

\* C1 (Identity): any two calls whose descriptors normalize to the same kind
\* and identifying sub-field returned the same Status Object, and every
\* object ever returned is still the one object of the record cached for its
\* key: records are created once and never replaced or evicted.
C1_Identity ==
  /\ \A a, b \in issued :
       SubField(a.desc) = SubField(b.desc) => a.obj = b.obj
  /\ \A a \in issued :
       /\ MapPrototypeHas(statusCache, CacheKey(a.desc))
       /\ recs[statusCache[CacheKey(a.desc)]].status = a.obj
       /\ objs[a.obj].rec = statusCache[CacheKey(a.desc)]

\* A path and a file URL for it, the later call a deferred one that changed
\* the state: still one object.
C1_Witness ==
  /\ last.form = "deferred" /\ last.promise = "resolved"
  /\ Dispatched(last.trace) # << >>
  /\ \E a, b \in issued :
       /\ a.raw.path.t = "fileurl" /\ b.raw.path.t = "string"
       /\ SubField(a.desc) = SubField(b.desc) /\ a.obj = b.obj

\* C2 (Key partition): calls whose normalized descriptors differ in kind or
\* in the identifying sub-field (present or absent included) returned
\* distinct Status Objects.
C2_KeyPartition ==
  \A a, b \in issued :
    SubField(a.desc) # SubField(b.desc) => a.obj # b.obj

\* C3 (Monotone notification): a resolution of a key that is already cached
\* dispatches exactly one change event, on that key's object, when the
\* engine's state differs from the stored one, and no event at all when it
\* does not; no other object receives an event.
C3_MonotoneNotification ==
  [][ (CallStep /\ EngineAnswered(last'.trace)) =>
        LET key == CacheKey(last'.descAfter) IN
        MapPrototypeHas(statusCache, key) =>
          Dispatched(last'.trace) =
            IF recs[statusCache[key]].state # EngineState(last'.trace)
            THEN <<recs[statusCache[key]].status>> ELSE << >> ]_vars

\* A resolution that changed one object's state while another object exists.
C3_Witness ==
  /\ last.what \in Ops
  /\ Len(objs) = 2
  /\ Len(Dispatched(last.trace)) = 1
  /\ StateOf(World, 1) # StateOf(World, 2)

\* C4 (Live view per key): the state read from a Status Object is the state
\* the decision engine returned to the most recent call made for the
\* object's key, for every cached object and every reference handed out.
C4_LiveView ==
  /\ \A k \in DOMAIN statusCache :
       /\ MapPrototypeHas(answered, k)
       /\ StateOf(World, recs[statusCache[k]].status) = answered[k]
  /\ \A a \in issued : StateOf(World, a.obj) = answered[CacheKey(a.desc)]

\* A reference from an earlier call reads "prompt" after a revokeSync whose
\* change event made the onchange handler throw.
C4_Witness ==
  /\ last.what = "revoke" /\ last.form = "immediate"
  /\ last.error = HandlerFailed
  /\ \E a \in issued : StateOf(World, a.obj) = "prompt"

\* C5 (Synchronization with the engine): whenever a call changes the
\* engine's state of the capability of an outstanding Status Object, that
\* object reads the new state afterwards and received a change event, also
\* when its key is not the one the call names.
C5_Synchronized ==
  [][ CallStep =>
        \A a \in issued :
          grants'[EngineCap(a.desc)] # grants[EngineCap(a.desc)] =>
            /\ StateIn(recs', objs', a.obj) = grants'[EngineCap(a.desc)]
            /\ \E i \in 1..Len(last'.trace) :
                 last'.trace[i].e = "dispatch" /\ last'.trace[i].obj = a.obj
    ]_vars

\* The descriptors that are an object naming one of the eight kinds.
Kinds == {"read", "write", "net", "env", "sys", "run", "ffi", "hrtime"}
Recognized(desc) ==
  desc.t = "object" /\ desc.name.t = "string" /\ desc.name.s \in Kinds

\* C6 (Validation): a call whose descriptor is not an object, is null, or
\* names none of the eight kinds fails with the invalid-descriptor error
\* (thrown by the immediate form, a rejected future from the deferred one)
\* before anything else: no engine call, no event, the descriptor as it
\* was, and the cache, its records and objects and the engine untouched.
C6_Validation ==
  [][ (CallStep /\ ~Recognized(last'.desc)) =>
        /\ last'.error = InvalidName
        /\ last'.ret = 0
        /\ IF last'.form = "immediate"
           THEN last'.threw /\ last'.promise = "none"
           ELSE ~last'.threw /\ last'.promise = "rejected"
        /\ last'.trace = << >>
        /\ last'.descAfter = last'.desc
        /\ UNCHANGED <<statusCache, recs, objs, grants, issued, answered>>
    ]_vars

\* query(null) is rejected while the cache holds a record.
C6_Witness ==
  /\ last.what = "query" /\ last.form = "deferred"
  /\ last.desc = NullDesc
  /\ last.promise = "rejected" /\ last.error = InvalidName
  /\ DOMAIN statusCache # {}

\* The immediate form of an operation.
SyncForm(what, w, desc, env) ==
  CASE what = "query" -> querySync(w, desc, env)
    [] what = "revoke" -> revokeSync(w, desc, env)
    [] what = "request" -> requestSync(w, desc, env)

\* What an immediate form's completion r leaves behind, and how a future
\* that stands for it is settled.
Effects(r) ==
  [statusCache |-> r.w.statusCache, recs |-> r.w.recs, objs |-> r.w.objs,
   grants |-> r.w.grants, trace |-> r.w.trace, desc |-> r.desc,
   settled |-> IF r.threw THEN <<"rejected", r.error, 0>>
               ELSE <<"resolved", "", r.ret>>]

\* C7 (Deferred/immediate equivalence): a deferred call never throws; it
\* leaves the cache, the records, the objects, the engine, the descriptor
\* and the events dispatched exactly as the immediate form leaves them from
\* the same state, and its future is resolved with the object the immediate
\* form returns or rejected with the error it throws.
C7_DeferredEquivalence ==
  [][ (CallStep /\ last'.form = "deferred") =>
        /\ ~last'.threw
        /\ [statusCache |-> statusCache', recs |-> recs', objs |-> objs',
            grants |-> grants', trace |-> last'.trace,
            desc |-> last'.descAfter,
            settled |-> <<last'.promise, last'.error, last'.ret>>]
           = Effects(SyncForm(last'.what, World, last'.desc, last'.env))
    ]_vars

\* A deferred query whose op failed: the future is rejected, nothing thrown.
C7_Witness ==
  /\ last.what = "query" /\ last.form = "deferred"
  /\ last.promise = "rejected" /\ last.error = OpFailed
  /\ ~last.threw

\* The callbacks a call ran, in order: listeners and the onchange handler.
RECURSIVE Ran(_)
Ran(trace) ==
  IF trace = << >> THEN << >>
  ELSE (IF Head(trace).e \in {"listener", "onchange"}
        THEN <<<<Head(trace).e, Head(trace).a>>>> ELSE << >>)
       \o Ran(Tail(trace))

\* The callbacks attached to object o: its listeners in registration order,
\* then the onchange handler when one is set.
Attached(o) ==
  [i \in 1..Len(objs[o].listeners) |-> <<"listener", objs[o].listeners[i]>>]
  \o (IF objs[o].onchange = "null" THEN << >>
      ELSE <<<<"onchange", objs[o].onchange>>>>)

\* A callback of object o prevents a cancelable event.
Prevents(o) ==
  \/ \E i \in 1..Len(objs[o].listeners) : objs[o].listeners[i] = "preventDefault"
  \/ objs[o].onchange = "preventDefault"

\* C8 (Dispatch): every dispatch on a Status Object runs all its registered
\* listeners in registration order and then the onchange handler when one
\* is set, and dispatchEvent returns true exactly when the event was not
\* prevented.
C8_DispatchRunsAll ==
  [][ (last'.seq # last.seq /\ Dispatched(last'.trace) # << >>) =>
        LET o == Dispatched(last'.trace)[1] IN
        /\ Ran(last'.trace) = Attached(o)
        /\ (last'.what = "dispatchEvent" /\ ~last'.threw) =>
             (last'.result <=> ~(last'.form = "cancelable" /\ Prevents(o)))
    ]_vars

\* C9 (resolve does not fail): every call that got a state from the
\* decision engine, and so reached the cache, got a Status Object back.
C9_ResolveNeverFails ==
  (last.what \in Ops /\ EngineAnswered(last.trace)) =>
    /\ ~last.threw
    /\ last.promise # "rejected"
    /\ last.ret \in 1..Len(objs)

\* C10 (Construction guard): a construction by the script fails with the
\* illegal-construction error and returns nothing, and every Status Object
\* that exists is the object of exactly one key of the cache.
C10_ConstructionGuard ==
  /\ last.what = "construct" =>
       last.threw /\ last.error = IllegalConstructor /\ last.ret = 0
  /\ \A o \in 1..Len(objs) :
       Cardinality({k \in DOMAIN statusCache : recs[statusCache[k]].status = o}) = 1

\* A refused construction while the cache holds an object.
C10_Witness ==
  /\ last.what = "construct" /\ last.threw
  /\ Len(objs) = 1

\* The value serializePermissions read under key k of its argument p.
Given(h, p, k) ==
  IF h[p.at].t = "object" /\ h[p.at].fields[k].t # "absent"
  THEN h[p.at].fields[k] ELSE Undefined
IsList(h, v) == v.t = "ref" /\ h[v.at].t = "array"
PathKinds == {"read", "write", "run", "ffi"}
AllKeys == PathKinds \cup {"env", "hrtime", "net", "sys"}

\* C11 (bulk formatting): serializePermissions returns an argument that is
\* null or not an object as it is and allocates nothing.  For an object it
\* returns a new object whose eight properties are: for a list under
\* read/write/run/ffi a new list of the normalized elements, for a list
\* under env/hrtime/net/sys a new list of the same elements in the same
\* order, for anything else the value itself.  It throws only when an
\* element of a read/write/run/ffi list cannot be normalized.  The argument
\* and its lists are as they were.
C11_Serialize ==
  serialized.done =>
    LET p == serialized.permissions
        h0 == serialized.before
        new == (Len(h0) + 1)..Len(heap)
    IN /\ Len(heap) >= Len(h0)
       /\ \A n \in 1..Len(h0) : heap[n] = h0[n]
       /\ IF p.t # "ref"
          THEN ~serialized.threw /\ serialized.ret = p /\ heap = h0
          ELSE IF serialized.threw
          THEN \E k \in PathKinds :
                 /\ IsList(h0, Given(h0, p, k))
                 /\ \E e \in 1..Len(h0[Given(h0, p, k).at].elems) :
                      ~pathFromURL(h0[Given(h0, p, k).at].elems[e]).ok
          ELSE LET out == serialized.ret IN
               /\ out.t = "ref" /\ out.at \in new
               /\ heap[out.at].t = "object"
               /\ \A k \in AllKeys :
                    LET v == Given(h0, p, k)
                        o == heap[out.at].fields[k]
                    IN IF IsList(h0, v)
                       THEN /\ o.t = "ref" /\ o.at \in new
                            /\ heap[o.at].t = "array"
                            /\ Len(heap[o.at].elems) = Len(h0[v.at].elems)
                            /\ \A e \in 1..Len(h0[v.at].elems) :
                                 heap[o.at].elems[e] =
                                   IF k \in PathKinds
                                   THEN pathFromURL(h0[v.at].elems[e]).v
                                   ELSE h0[v.at].elems[e]
                       ELSE o = v

\* One array given both as the read list and as the net list: the read
\* list comes back with the file URL turned into its path, the net list
\* with the URL still in it, in two new arrays.
C11_Witness ==
  /\ serialized.done /\ ~serialized.threw
  /\ serialized.permissions = Ref(2)
  /\ heap[2].t = "object"
  /\ heap[2].fields["read"] = Ref(1) /\ heap[2].fields["net"] = Ref(1)
  /\ heap[1].elems = <<Str("/a"), FileURL("/b")>>
  /\ heap[heap[serialized.ret.at].fields["read"].at].elems = <<Str("/a"), Str("/b")>>
  /\ heap[heap[serialized.ret.at].fields["net"].at].elems = <<Str("/a"), FileURL("/b")>>
  /\ heap[serialized.ret.at].fields["read"] # heap[serialized.ret.at].fields["net"]

\* The key the per-kind rules give a descriptor: raw is the descriptor as
\* the caller passed it, desc the same descriptor normalized.
DocumentedKey(raw, desc) ==
  LET name == raw.name.s
      f == IdField(name)
  IN IF f # "" /\ raw[f].t \notin {"absent", "undefined"}
     THEN name \o "-" \o TemplateString(desc[f]) \o "&"
     ELSE name \o "$"

\* C12 (key derivation): the Status Object a call returned is cached under
\* the key of the per-kind rules: "{kind}-{value}&" when the descriptor
\* has the kind's identifying field (path for read/write/ffi, host for net,
\* command for run, variable for env, kind for sys), the value being the
\* normalized one, and "{kind}$" when it has not or the kind is hrtime.
C12_KeyDerivation ==
  \A a \in issued :
    /\ MapPrototypeHas(statusCache, DocumentedKey(a.raw, a.desc))
    /\ recs[statusCache[DocumentedKey(a.raw, a.desc)]].status = a.obj

\* The fields of a descriptor other than f.
OtherFields(f) == {"t", "name", "path", "host", "command", "variable", "kind"} \ {f}

\* C16 (normalization frame): a facade call on a recognized descriptor
\* leaves a descriptor of kind net, env, sys or hrtime as it was; of a
\* descriptor of kind read, write or ffi it changes nothing but path, of
\* one of kind run nothing but command, and that field holds afterwards
\* what path normalization makes of its old value (the descriptor is as it
\* was when normalization fails).
C16_NormalizationFrame ==
  [][ (CallStep /\ Recognized(last'.desc)) =>
        LET d == last'.desc
            a == last'.descAfter
            f == CASE d.name.s \in {"read", "write", "ffi"} -> "path"
                   [] d.name.s = "run" -> "command"
                   [] OTHER -> ""
        IN IF f = "" THEN a = d
           ELSE /\ \A g \in OtherFields(f) : a[g] = d[g]
                /\ a[f] = IF pathFromURL(Get(d, f)).ok
                          THEN pathFromURL(Get(d, f)).v ELSE d[f]
    ]_vars

\* A run descriptor whose command and path are both file URLs: the command
\* comes back as a path, the path is still the URL.
C16_Witness ==
  /\ last.what \in Ops /\ ~last.threw /\ last.promise # "rejected"
  /\ last.desc.name.s = "run"
  /\ last.desc.command = FileURL("/c") /\ last.desc.path = FileURL("/a")
  /\ last.descAfter.command = Str("/c") /\ last.descAfter.path = FileURL("/a")

\* The engine answered at position j of the record of a call.
Answer(trace, j) == trace[j].e = "engine" /\ trace[j].state # "fail"

\* The state the engine returned last before position i.
AnswerBefore(trace, i) ==
  trace[CHOOSE j \in 1..(i - 1) :
          Answer(trace, j) /\ \A k \in (j + 1)..(i - 1) : ~Answer(trace, k)].state

DispatchStep ==
  last'.seq # last.seq /\ last'.what = "dispatchEvent" /\ ~last'.threw

\* Preventing has no part in a facade call: whatever the callbacks did, the
\* key's record holds the state the engine returned; a call that returns
\* returns the key's object; and a call fails only when its onchange handler
\* threw (C9), never because a callback prevented the event.
PreventionKeepsState ==
  (CallStep /\ EngineAnswered(last'.trace)) =>
    LET rec == statusCache'[CacheKey(last'.descAfter)]
        failed == last'.threw \/ last'.promise = "rejected"
    IN /\ recs'[rec].state = EngineState(last'.trace)
       /\ failed <=> \E i \in 1..Len(last'.trace) :
                       last'.trace[i].e = "onchange" /\ last'.trace[i].a = "throw"
       /\ ~failed => last'.ret = recs'[rec].status

EngineCalls(trace) == {i \in 1..Len(trace) : trace[i].e = "engine"}

\* C15 (one engine call per operation): a call that succeeds made exactly
\* one decision-engine call, the one of its operation, with the normalized
\* descriptor, before the cache was resolved (no event precedes it); a call
\* that fails validation or normalization made none; and a query leaves
\* the engine's grants as they were.
C15_OneEngineCall ==
  [][ CallStep =>
        /\ (~last'.threw /\ last'.promise # "rejected") =>
             /\ EngineCalls(last'.trace) = {1}
             /\ last'.trace[1].a = last'.what
             /\ last'.trace[1].state = grants'[EngineCap(last'.descAfter)]
             /\ statusCache'[CacheKey(last'.descAfter)] \in 1..Len(recs')
        /\ last'.error \in {InvalidName, NotFileURL} =>
             EngineCalls(last'.trace) = {}
        /\ Cardinality(EngineCalls(last'.trace)) <= 1
        /\ last'.what = "query" => grants' = grants
    ]_vars

\* A deferred request the user granted: one engine call, then the change
\* event of the cached object.
C15_Witness ==
  /\ last.what = "request" /\ last.form = "deferred" /\ last.promise = "resolved"
  /\ Len(last.trace) = 2
  /\ last.trace[1] = Entry("engine", "request", 0, "granted")
  /\ last.trace[2].e = "dispatch"

\* Path normalization refuses the descriptor d: its path (read, write, ffi)
\* or command (run) is a URL that is not a file URL.
Unresolvable(d) ==
  /\ Recognized(d)
  /\ \/ d.name.s \in {"read", "write", "ffi"} /\ ~pathFromURL(Get(d, "path")).ok
     \/ d.name.s = "run" /\ ~pathFromURL(Get(d, "command")).ok

\* C17 (failures are surfaced, the cache is untouched): a call whose
\* descriptor path normalization refuses fails with the normalizer's error
\* and makes no engine call; a call whose engine call fails fails with the
\* engine's error after that one call.  The immediate form throws it, the
\* deferred form returns a rejected future.  Either way the cache, its
\* records and the Status Objects are as before and no event is dispatched.
C17_FailureLeavesCache ==
  [][ (CallStep /\ Recognized(last'.desc)
         /\ (Unresolvable(last'.desc) \/ last'.env = "fail")) =>
        /\ IF Unresolvable(last'.desc)
           THEN last'.error = NotFileURL /\ EngineCalls(last'.trace) = {}
           ELSE last'.error = OpFailed /\ EngineCalls(last'.trace) = {1}
                /\ last'.trace[1].a = last'.what
        /\ IF last'.form = "immediate"
           THEN last'.threw /\ last'.promise = "none"
           ELSE ~last'.threw /\ last'.promise = "rejected"
        /\ last'.ret = 0
        /\ Dispatched(last'.trace) = << >>
        /\ UNCHANGED <<statusCache, recs, objs, issued>>
    ]_vars

\* A deferred revoke whose op failed while the capability's object is
\* cached as granted: rejected, the object still reads "granted".
C17_Witness ==
  /\ last.what = "revoke" /\ last.form = "deferred"
  /\ last.promise = "rejected" /\ last.error = OpFailed
  /\ MapPrototypeHas(statusCache, CacheKey(last.descAfter))
  /\ recs[statusCache[CacheKey(last.descAfter)]].state = "granted"

\* C18 (the returned object shows the call's own answer): when an immediate
\* form returns a Status Object, the state read from that object is the
\* state the decision engine returned to that call, callbacks that call
\* back into the facade during the call included.
C18_ReturnedStateIsOwnAnswer ==
  (last.what \in Ops /\ last.form = "immediate" /\ ~last.threw) =>
    StateOf(World, last.ret) = EngineState(last.trace)

\* The callbacks that called back into the facade during a call.
Entered(trace) == {trace[i].a : i \in {j \in 1..Len(trace) : trace[j].e = "enter"}}

\* C19 (re-entrant notification terminates): when the callbacks of a change
\* event query the capability again from inside the event, each nested
\* query gets the state the engine just reported, finds the record holding
\* it and dispatches nothing: the call dispatched one event, the call stack
\* never overflowed, and the call returned the Status Object.
C19_RequeryTerminates ==
  (last.what \in Ops /\ Entered(last.trace) = {"requery"}) =>
    /\ Len(Dispatched(last.trace)) = 1
    /\ \A i \in 1..Len(last.trace) :
         /\ last.trace[i].e # "overflow"
         /\ last.trace[i].e = "engine" => last.trace[i].state = EngineState(last.trace)
    /\ ~last.threw
    /\ last.ret \in 1..Len(objs)
    /\ StateOf(World, last.ret) = EngineState(last.trace)

\* A revoke of a granted capability whose event ran two listeners and an
\* onchange handler that all query again.
C19_Witness ==
  /\ last.what = "revoke"
  /\ Entered(last.trace) = {"requery"}
  /\ Cardinality({i \in 1..Len(last.trace) : last.trace[i].e = "enter"}) = 3
  /\ Cardinality(EngineCalls(last.trace)) = 4
  /\ Len(Dispatched(last.trace)) = 1

====
